---- MODULE Spec2Model ----
(***************************************************************************)
(* A model of app.py: a Flask voting service with an in-memory tally dict  *)
(* (votes), a request counter and a response-time histogram               *)
(* (prometheus_client), the track_metrics decorator, and the four routes   *)
(* /, /vote, /result and /metrics.                                         *)
(*                                                                         *)
(* Requests are served by the threads of the WSGI server; a thread's       *)
(* position in wrapper() and in the view function is its pc.  A step is    *)
(* one access to the shared state; the augmented assignment of line 94 is  *)
(* a read (BINARY_SUBSCR) followed by a write (STORE_SUBSCR), with no      *)
(* lock held between the two.                                              *)
(***************************************************************************)
EXTENDS Integers, FiniteSets, Sequences, TLC

VARIABLES
    votes,          \* the dict of line 45
    REQUEST_COUNT,  \* the Counter of line 29: label pair -> value, children made on first use
    RESPONSE_TIME,  \* the Histogram of line 36: endpoint -> number of observations
    thr,            \* per serving thread: position, the request, locals, the response
    jsonMode,       \* what request.json does for a body that is not application/json
    nRequests,      \* requests taken so far
    hReceived,      \* history: label pair -> requests dispatched so far
    hReturned,      \* history: endpoint -> wrapped view calls that returned a value
    hAccepted,      \* history: option -> POST /vote calls that returned 200 for it
    hLastResult     \* history: body of the latest /result answer, NoResult after a tally write

vars == <<votes, REQUEST_COUNT, RESPONSE_TIME, thr, jsonMode, nRequests,
          hReceived, hReturned, hAccepted, hLastResult>>

(***************************************************************************)
(* Bounds.                                                                 *)
(***************************************************************************)
\* Requests taken in a run of Spec, and in a run of SeqSpec.
MaxRequests == 3

MaxSeqRequests == 5

Threads == {"t1", "t2"}

(***************************************************************************)
(* Python values.                                                          *)
(***************************************************************************)
None == "<None>"

Truthy(v) == v # None /\ v # ""

\* A dict: its keys in insertion order, and its values.
Dict(keys, val) == [keys |-> keys, val |-> val]

EmptyDict == Dict(<< >>, [k \in {} |-> 0])

Contains(d, k) == k \in DOMAIN d.val

\* d.get(k)
DictGet(d, k) == IF Contains(d, k) THEN d.val[k] ELSE None

\* Mutant of DictSet: the name is rebound to a new dict holding only k.
DictSetOnly(d, k, v) == Dict(<<k>>, [x \in {k} |-> v])

\* d[k] = v
DictSet(d, k, v) ==
    Dict(IF Contains(d, k) THEN d.keys ELSE Append(d.keys, k),
         [x \in DOMAIN d.val \cup {k} |-> IF x = k THEN v ELSE d.val[x]])

\* list(d.keys())
Keys(d) == d.keys

\* Counter.labels(...).inc() and Histogram.labels(...).observe(...): the child
\* of a label value is created at zero on first use, then incremented.  The
\* library does both under its own lock, so each is one step.  Of a histogram
\* the model keeps the number of observations, not the durations observed.
Inc(m, l) ==
    [x \in DOMAIN m \cup {l} |-> IF x = l
                                  THEN (IF l \in DOMAIN m THEN m[l] ELSE 0) + 1
                                  ELSE m[x]]

EmptyMetric == [l \in {} |-> 0]

(***************************************************************************)
(* Requests.                                                               *)
(***************************************************************************)
Routes == {"/", "/vote", "/result", "/metrics"}

Methods == {"GET", "HEAD", "POST"}

\* methods=[...] of each @app.route; Flask adds HEAD to a rule that takes GET.
RouteMethods(route) ==
    IF route = "/vote" THEN {"POST"} ELSE {"GET", "HEAD"}

\* Mutant of Wrapped: /metrics is decorated like the other routes.
WrappedAll(route) == route \in {"/", "/vote", "/result", "/metrics"}

\* The routes decorated with @track_metrics, and the endpoint_name given.
Wrapped(route) == route \in {"/", "/vote", "/result"}

\* Values of the "language" field tried; None is "field absent".
FieldValues == {None, "", "Python", "Java", "Go", "Rust"}

JsonBody(kind, language) == [kind |-> kind, language |-> language]

NoBody == JsonBody("notjson", None)

\* A request body is form data (then it is not JSON), or it is of type
\* application/json: unparsable, the literal null, or an object.
Bodies ==
    {[form |-> f, json |-> NoBody] : f \in FieldValues}
    \cup {[form |-> None, json |-> JsonBody(k, None)] : k \in {"malformed", "null"}}
    \cup {[form |-> None, json |-> JsonBody("object", v)] : v \in FieldValues}

JsonModes == {"none", "raise400", "raise415"}

\* request.json: raise is the status werkzeug aborts with (0: no abort),
\* none says the result is None, value is the parsed object otherwise.
JsonResult(raise, none, value) == [raise |-> raise, none |-> none, value |-> value]

RequestJson(body, mode) ==
    CASE body.json.kind = "object" ->
            JsonResult(0, FALSE,
                       IF body.json.language = None
                       THEN EmptyDict
                       ELSE Dict(<<"language">>, [k \in {"language"} |-> body.json.language]))
      [] body.json.kind = "null" -> JsonResult(0, TRUE, EmptyDict)
      [] body.json.kind = "malformed" -> JsonResult(400, TRUE, EmptyDict)
      [] body.json.kind = "notjson" ->
            CASE mode = "none"     -> JsonResult(0, TRUE, EmptyDict)
              [] mode = "raise400" -> JsonResult(400, TRUE, EmptyDict)
              [] mode = "raise415" -> JsonResult(415, TRUE, EmptyDict)

\* (request.json or {}) of an evaluated request.json
OrEmptyDict(j) == IF j.none \/ Len(j.value.keys) = 0 THEN EmptyDict ELSE j.value

\* Line 88: request.form.get("language") or (request.json or {}).get("language").
\* request.json is evaluated only when the form value is falsy.
ParseLanguage(body, mode) ==
    IF Truthy(body.form)
    THEN [raise |-> 0, language |-> body.form]
    ELSE LET j == RequestJson(body, mode) IN
         IF j.raise # 0
         THEN [raise |-> j.raise, language |-> None]
         ELSE [raise |-> 0, language |-> DictGet(OrEmptyDict(j), "language")]

(***************************************************************************)
(* Responses.                                                              *)
(***************************************************************************)
EmptyRegistry == [REQUEST_COUNT |-> EmptyMetric, RESPONSE_TIME |-> EmptyMetric]

\* status: the HTTP status; kind: html, json, text, or abort (an HTTPException
\* answered by Flask); text: the "error" or "message" string, in pieces;
\* data: the dict serialised by jsonify; registry: what generate_latest() read.
Response(status, kind, text, data, registry) ==
    [status |-> status, kind |-> kind, text |-> text, data |-> data, registry |-> registry]

NoResponse == Response(0, "none", << >>, EmptyDict, EmptyRegistry)

HomePage == Response(200, "html", <<"Python", "Java", "Go">>, EmptyDict, EmptyRegistry)

NoLanguage == Response(400, "json", <<"No language provided">>, EmptyDict, EmptyRegistry)

\* Mutant of InvalidChoice: the message does not list the valid options.
InvalidChoiceBare(d) ==
    Response(400, "json", <<"Invalid choice.">>, EmptyDict, EmptyRegistry)

InvalidChoice(d) ==
    Response(400, "json", <<"Invalid choice. Valid: ">> \o Keys(d), EmptyDict, EmptyRegistry)

Recorded(language, d) ==
    Response(200, "json", <<"Vote for ", language, " recorded!">>, d, EmptyRegistry)

\* Mutant of ResultBody: the answer is built from the dict as written on line 45.
ResultBodyStale(d) ==
    Response(200, "json", << >>,
             Dict(<<"Python", "Java", "Go">>, [k \in {"Python", "Java", "Go"} |-> 0]),
             EmptyRegistry)

ResultBody(d) == Response(200, "json", << >>, d, EmptyRegistry)

MetricsBody(count, time) ==
    Response(200, "text", << >>, EmptyDict, [REQUEST_COUNT |-> count, RESPONSE_TIME |-> time])

Abort(status) == Response(status, "abort", << >>, EmptyDict, EmptyRegistry)

NoResult == Dict(<<"no result">>, [k \in {} |-> 0])

(***************************************************************************)
(* State.                                                                  *)
(***************************************************************************)
InitVotes == Dict(<<"Python", "Java", "Go">>, [k \in {"Python", "Java", "Go"} |-> 0])

NoRequestBody == [form |-> None, json |-> NoBody]

Idle == [pc |-> "idle", route |-> "", method |-> "", body |-> NoRequestBody,
         language |-> None, tmp |-> 0, response |-> NoResponse]

Init ==
    /\ votes = InitVotes
    /\ REQUEST_COUNT = EmptyMetric
    /\ RESPONSE_TIME = EmptyMetric
    /\ thr = [t \in Threads |-> Idle]
    /\ jsonMode \in JsonModes
    /\ nRequests = 0
    /\ hReceived = EmptyMetric
    /\ hReturned = EmptyMetric
    /\ hAccepted = [o \in {"Python", "Java", "Go"} |-> 0]
    /\ hLastResult = NoResult

(***************************************************************************)
(* Steps of a serving thread.                                              *)
(***************************************************************************)
ViewPc(route) ==
    CASE route = "/"        -> "home"
      [] route = "/vote"    -> "vote88"
      [] route = "/result"  -> "result"
      [] route = "/metrics" -> "metrics"

\* The view function of thread t returns resp: to wrapper() line 57 when the
\* route is decorated, to Flask otherwise.
Return(t, resp) ==
    /\ thr' = [thr EXCEPT ![t].response = resp, ![t].body = NoRequestBody,
                          ![t].pc = IF Wrapped(thr[t].route) THEN "wrapper57" ELSE "done"]
    /\ hReturned' = IF Wrapped(thr[t].route) THEN Inc(hReturned, thr[t].route) ELSE hReturned

\* Flask takes a request and dispatches it: 405 when the rule does not take the
\* method, the view function (wrapper() for a decorated route) otherwise.
Receive(t, max) ==
    /\ thr[t].pc = "idle"
    /\ nRequests < max
    /\ nRequests' = nRequests + 1
    /\ \E route \in Routes, method \in Methods :
         \E body \in IF route = "/vote" /\ method = "POST" THEN Bodies ELSE {NoRequestBody} :
            LET req == [Idle EXCEPT !.route = route, !.method = method, !.body = body] IN
            IF method \in RouteMethods(route)
            THEN /\ thr' = [thr EXCEPT ![t] =
                      [req EXCEPT !.pc = IF Wrapped(route) THEN "wrapper54" ELSE ViewPc(route)]]
                 /\ hReceived' = Inc(hReceived, <<route, method>>)
            ELSE /\ thr' = [thr EXCEPT ![t] = [req EXCEPT !.pc = "done", !.response = Abort(405)]]
                 /\ UNCHANGED hReceived
    /\ UNCHANGED <<votes, REQUEST_COUNT, RESPONSE_TIME, jsonMode, hReturned, hAccepted, hLastResult>>

\* Mutant of Label: the method label is a fixed "GET", not request.method.
LabelFixedMethod(endpoint, method) == <<endpoint, "GET">>

\* Line 54: labels(endpoint=endpoint_name, method=request.method).
Label(endpoint, method) == <<endpoint, method>>

\* wrapper() lines 54-55: count the request, then call the view function.
WrapperCount(t) ==
    /\ thr[t].pc = "wrapper54"
    /\ REQUEST_COUNT' = Inc(REQUEST_COUNT, Label(thr[t].route, thr[t].method))
    /\ thr' = [thr EXCEPT ![t].pc = ViewPc(thr[t].route)]
    /\ UNCHANGED <<votes, RESPONSE_TIME, jsonMode, nRequests, hReceived, hReturned, hAccepted, hLastResult>>

\* home(), lines 70-82.
Home(t) ==
    /\ thr[t].pc = "home"
    /\ Return(t, HomePage)
    /\ UNCHANGED <<votes, REQUEST_COUNT, RESPONSE_TIME, jsonMode, nRequests, hReceived, hAccepted, hLastResult>>

\* vote(), lines 88-92: read the option and validate it.  An abort raised by
\* request.json leaves vote() and wrapper() by exception: lines 57-58 do not run.
\* The body is read here and nowhere else, so the model drops it here.
VoteParse(t) ==
    /\ thr[t].pc = "vote88"
    /\ LET p == ParseLanguage(thr[t].body, jsonMode) IN
       IF p.raise # 0
       THEN /\ thr' = [thr EXCEPT ![t].pc = "done", ![t].response = Abort(p.raise),
                                  ![t].body = NoRequestBody]
            /\ UNCHANGED hReturned
       ELSE IF ~Truthy(p.language)
       THEN Return(t, NoLanguage)
       ELSE IF ~Contains(votes, p.language)
       THEN Return(t, InvalidChoice(votes))
       ELSE /\ thr' = [thr EXCEPT ![t].pc = "vote94read", ![t].language = p.language,
                                  ![t].body = NoRequestBody]
            /\ UNCHANGED hReturned
    /\ UNCHANGED <<votes, REQUEST_COUNT, RESPONSE_TIME, jsonMode, nRequests, hReceived, hAccepted, hLastResult>>

\* Line 94, votes[language] += 1: first the read of votes[language] ...
VoteRead(t) ==
    /\ thr[t].pc = "vote94read"
    /\ thr' = [thr EXCEPT ![t].pc = "vote94write", ![t].tmp = votes.val[thr[t].language]]
    /\ UNCHANGED <<votes, REQUEST_COUNT, RESPONSE_TIME, jsonMode, nRequests, hReceived, hReturned, hAccepted, hLastResult>>

\* Mutant of Incremented: the value read is stored back unchanged.
NotIncremented(d, k, tmp) == tmp

\* Mutant of Incremented: the sum is taken from the dict at the time of the
\* store, as under a lock held over line 94.
IncrementedAtomic(d, k, tmp) == d.val[k] + 1

\* The value line 94 stores into d[k]: the value it read, plus one.
Incremented(d, k, tmp) == tmp + 1

\* ... then the store of the sum.
VoteWrite(t) ==
    /\ thr[t].pc = "vote94write"
    /\ votes' = DictSet(votes, thr[t].language, Incremented(votes, thr[t].language, thr[t].tmp))
    /\ thr' = [thr EXCEPT ![t].pc = "vote95"]
    /\ hLastResult' = NoResult
    /\ UNCHANGED <<REQUEST_COUNT, RESPONSE_TIME, jsonMode, nRequests, hReceived, hReturned, hAccepted>>

\* Line 95: jsonify the message and the dict as it is now, status 200.
VoteRespond(t) ==
    /\ thr[t].pc = "vote95"
    /\ Return(t, Recorded(thr[t].language, votes))
    /\ hAccepted' = [hAccepted EXCEPT ![thr[t].language] = @ + 1]
    /\ UNCHANGED <<votes, REQUEST_COUNT, RESPONSE_TIME, jsonMode, nRequests, hReceived, hLastResult>>

\* result(), line 101.
Result(t) ==
    /\ thr[t].pc = "result"
    /\ Return(t, ResultBody(votes))
    /\ hLastResult' = votes
    /\ UNCHANGED <<votes, REQUEST_COUNT, RESPONSE_TIME, jsonMode, nRequests, hReceived, hAccepted>>

\* metrics(), line 106: serialise the registry.
Metrics(t) ==
    /\ thr[t].pc = "metrics"
    /\ Return(t, MetricsBody(REQUEST_COUNT, RESPONSE_TIME))
    /\ UNCHANGED <<votes, REQUEST_COUNT, RESPONSE_TIME, jsonMode, nRequests, hReceived, hAccepted, hLastResult>>

\* Mutant of WrapperObserve: only a 200 response is observed.
WrapperObserveSuccess(t) ==
    /\ thr[t].pc = "wrapper57"
    /\ RESPONSE_TIME' = IF thr[t].response.status = 200
                        THEN Inc(RESPONSE_TIME, thr[t].route)
                        ELSE RESPONSE_TIME
    /\ thr' = [thr EXCEPT ![t].pc = "done"]
    /\ UNCHANGED <<votes, REQUEST_COUNT, jsonMode, nRequests, hReceived, hReturned, hAccepted, hLastResult>>

\* wrapper() lines 57-59: observe the elapsed time, return the response.
WrapperObserve(t) ==
    /\ thr[t].pc = "wrapper57"
    /\ RESPONSE_TIME' = Inc(RESPONSE_TIME, thr[t].route)
    /\ thr' = [thr EXCEPT ![t].pc = "done"]
    /\ UNCHANGED <<votes, REQUEST_COUNT, jsonMode, nRequests, hReceived, hReturned, hAccepted, hLastResult>>

\* Flask sends the response; the thread is free for the next request.
Finish(t) ==
    /\ thr[t].pc = "done"
    /\ thr' = [thr EXCEPT ![t] = Idle]
    /\ UNCHANGED <<votes, REQUEST_COUNT, RESPONSE_TIME, jsonMode, nRequests, hReceived, hReturned, hAccepted, hLastResult>>

Step(t) ==
    \/ WrapperCount(t)
    \/ Home(t)
    \/ VoteParse(t)
    \/ VoteRead(t)
    \/ VoteWrite(t)
    \/ VoteRespond(t)
    \/ Result(t)
    \/ Metrics(t)
    \/ WrapperObserve(t)
    \/ Finish(t)

\* Requests served by parallel threads.
Next == \E t \in Threads : Receive(t, MaxRequests) \/ Step(t)

Spec == Init /\ [][Next]_vars

\* Requests served one at a time: none is taken while another is in progress.
Quiet == \A t \in Threads : thr[t].pc = "idle"

NextSeq == \E t \in Threads : (Quiet /\ Receive(t, MaxSeqRequests)) \/ Step(t)

SeqSpec == Init /\ [][NextSeq]_vars

(***************************************************************************)
(* Vocabulary of the properties.                                           *)
(***************************************************************************)
\* The options the service is configured with.
Options == {"Python", "Java", "Go"}

Tally(o) == votes.val[o]

\* The value of a counter or histogram child; a child not yet created reads 0.
CountOf(m, l) == IF l \in DOMAIN m THEN m[l] ELSE 0

\* Threads serving a request to route at position pc.
At(pc, route) == {t \in Threads : thr[t].pc = pc /\ thr[t].route = route}

StepBy(t) == thr'[t] # thr[t]

\* The option a request body supplies, None when it supplies none.
Supplied(body) ==
    IF body.form \notin {None, ""} THEN body.form
    ELSE IF body.json.kind = "object" THEN body.json.language
    ELSE None

\* The body is form data or a JSON value, and supplies no option.
NoOption(body) ==
    /\ body.json.kind \in {"notjson", "null", "object"}
    /\ Supplied(body) \in {None, ""}

InvalidOption(body) == Supplied(body) \notin {None, ""} \cup Options

\* Thread t leaves line 88-92 of vote() in this step.
Parses(t) == thr[t].pc = "vote88" /\ thr'[t].pc # "vote88"

HoldsVoteResponse(t) ==
    thr[t].route = "/vote" /\ thr[t].pc \in {"vote95", "wrapper57", "done"}

(***************************************************************************)
(* C1.  Served one at a time, the tally of every option equals the number  *)
(* of POST /vote requests answered 200 for that option (plus the one whose *)
(* store is done and whose answer is being built): N accepted votes for O  *)
(* raise O's tally by exactly N and no other tally.                        *)
(***************************************************************************)
C1_SequentialVotesCounted ==
    \A o \in Options :
        Tally(o) = hAccepted[o]
                   + Cardinality({t \in At("vote95", "/vote") : thr[t].language = o})

C1_Witness ==
    /\ Quiet
    /\ hAccepted = [o \in Options |-> IF o = "Go" THEN 3 ELSE IF o = "Java" THEN 1 ELSE 0]
    /\ Tally("Go") = 3 /\ Tally("Java") = 1 /\ Tally("Python") = 0

(***************************************************************************)
(* C2.  No step lowers the tally of any option, and every tally is a       *)
(* non-negative integer, also when requests are served in parallel.        *)
(***************************************************************************)
C2_TallyNeverDecreases ==
    [][\A o \in Options : votes'.val[o] >= votes.val[o] /\ votes.val[o] >= 0]_vars

(***************************************************************************)
(* C3.  The keys of the tally dict are exactly Python, Java and Go in      *)
(* every reachable state, all at zero before the first request, and every  *)
(* answer of /result carries exactly these keys.                           *)
(***************************************************************************)
C3_KeySetFixed ==
    /\ DOMAIN votes.val = Options
    /\ Keys(votes) = <<"Python", "Java", "Go">>
    /\ nRequests = 0 => \A o \in Options : Tally(o) = 0
    /\ \A t \in Threads :
          thr[t].route = "/result" /\ thr[t].pc \in {"wrapper57", "done"}
          /\ thr[t].response.status = 200
          => DOMAIN thr[t].response.data.val = Options

C3_Witness ==
    \E t \in Threads :
        /\ thr[t].route = "/result" /\ thr[t].pc = "done"
        /\ thr[t].response.data.val = [o \in Options |-> IF o = "Go" THEN 1 ELSE 0]
        /\ CountOf(RESPONSE_TIME, "/vote") = 2

(***************************************************************************)
(* C4.  A POST /vote that supplies no option is answered 400 "No language  *)
(* provided" and changes no tally.                                         *)
(***************************************************************************)
C4_MissingInputRejected ==
    [][\A t \in Threads :
          Parses(t) /\ NoOption(thr[t].body)
          => /\ thr'[t].response.status = 400
             /\ thr'[t].response.text = <<"No language provided">>
             /\ votes' = votes]_vars

(***************************************************************************)
(* C5.  A POST /vote whose option is a non-empty string that is not        *)
(* configured is answered 400 with an error listing Python, Java, Go, and  *)
(* no step of that request changes a tally or the set of keys.             *)
(***************************************************************************)
C5_InvalidOptionRejected ==
    [][\A t \in Threads :
          /\ Parses(t) /\ InvalidOption(thr[t].body)
             => /\ thr'[t].response.status = 400
                /\ thr'[t].response.kind = "json"
                /\ thr'[t].response.text = <<"Invalid choice. Valid: ", "Python", "Java", "Go">>
                /\ thr'[t].pc = "wrapper57"
          /\ StepBy(t)
             /\ \/ InvalidOption(thr[t].body) \/ InvalidOption(thr'[t].body)
                \/ thr[t].response.text = <<"Invalid choice. Valid: ", "Python", "Java", "Go">>
             => votes' = votes]_vars

C5_Witness ==
    \E t \in Threads :
        /\ thr[t].route = "/vote" /\ thr[t].pc = "done"
        /\ thr[t].response.status = 400
        /\ thr[t].response.text = <<"Invalid choice. Valid: ", "Python", "Java", "Go">>
        /\ Tally("Python") = 1

(***************************************************************************)
(* C6.  The increment is an unsynchronised read-modify-write: when the two *)
(* threads both serve a vote for the same option and both read the same    *)
(* value v, then once both have stored, the tally is v + 1 and not v + 2.  *)
(***************************************************************************)
C6_LostUpdate ==
    \A t, u \in Threads :
        /\ t # u
        /\ HoldsVoteResponse(t) /\ HoldsVoteResponse(u)
        /\ thr[t].response.status \in {0, 200} /\ thr[u].response.status \in {0, 200}
        /\ thr[t].language = thr[u].language
        /\ thr[t].tmp = thr[u].tmp
        => Tally(thr[t].language) = thr[t].tmp + 1

C6_Witness ==
    \E t, u \in Threads :
        /\ t # u
        /\ thr[t].pc = "done" /\ thr[u].pc = "done"
        /\ thr[t].response.status = 200 /\ thr[u].response.status = 200
        /\ thr[t].language = "Go" /\ thr[u].language = "Go"
        /\ thr[t].tmp = 0 /\ thr[u].tmp = 0
        /\ hAccepted["Go"] = 2
        /\ Tally("Go") = 1

(***************************************************************************)
(* C7.  Every request to a wrapped route is counted under its (endpoint,   *)
(* method) before its view function runs, and is observed exactly once     *)
(* after its view function returned a value, 200 or 400: the counter is    *)
(* the requests dispatched less those still at line 54, the histogram is   *)
(* the view calls that returned less those still at line 57, and a thread  *)
(* inside a view function has no response yet.                             *)
(***************************************************************************)
C7_CountedBeforeObservedAfter ==
    /\ \A e \in {"/", "/vote", "/result"}, m \in Methods :
          CountOf(REQUEST_COUNT, <<e, m>>) =
             CountOf(hReceived, <<e, m>>)
             - Cardinality({t \in At("wrapper54", e) : thr[t].method = m})
    /\ \A e \in {"/", "/vote", "/result"} :
          CountOf(RESPONSE_TIME, e) =
             CountOf(hReturned, e) - Cardinality(At("wrapper57", e))
    /\ \A t \in Threads :
          thr[t].pc \in {"wrapper54", "home", "vote88", "vote94read", "vote94write", "vote95", "result"}
          => thr[t].response = NoResponse

C7_Witness ==
    \E t \in Threads :
        /\ thr[t].route = "/vote" /\ thr[t].pc = "done"
        /\ thr[t].response.status = 400
        /\ thr[t].response.kind = "json"
        /\ CountOf(REQUEST_COUNT, <<"/vote", "POST">>) = 1
        /\ CountOf(RESPONSE_TIME, "/vote") = 1
        /\ CountOf(RESPONSE_TIME, "/") = 1

(***************************************************************************)
(* C8.  Served one at a time, the counter of (/vote, POST) equals the      *)
(* number of POST /vote requests taken so far, accepted or rejected,       *)
(* whatever the option; other requests leave it alone.                     *)
(***************************************************************************)
C8_VoteCounterCountsAll ==
    /\ CountOf(REQUEST_COUNT, <<"/vote", "POST">>) =
          CountOf(hReceived, <<"/vote", "POST">>) - Cardinality(At("wrapper54", "/vote"))
    /\ Quiet =>
          /\ CountOf(REQUEST_COUNT, <<"/vote", "POST">>) = CountOf(hReceived, <<"/vote", "POST">>)
          /\ CountOf(REQUEST_COUNT, <<"/vote", "POST">>) >= Tally("Python") + Tally("Java") + Tally("Go")

C8_Witness ==
    /\ Quiet
    /\ Tally("Python") = 3 /\ Tally("Java") = 2 /\ Tally("Go") = 0
    /\ CountOf(REQUEST_COUNT, <<"/vote", "POST">>) = 5

(***************************************************************************)
(* C9.  /metrics is not wrapped: no step of a /metrics request changes a   *)
(* counter, a histogram or a tally, and no counter or histogram child for  *)
(* endpoint /metrics ever exists.                                          *)
(***************************************************************************)
C9_MetricsNotMeasured ==
    /\ [](/\ \A l \in DOMAIN REQUEST_COUNT : l[1] # "/metrics"
          /\ "/metrics" \notin DOMAIN RESPONSE_TIME)
    /\ [][\A t \in Threads :
             StepBy(t) /\ (thr[t].route = "/metrics" \/ thr'[t].route = "/metrics")
             => UNCHANGED <<votes, REQUEST_COUNT, RESPONSE_TIME>>]_vars

C9_Witness ==
    \E t \in Threads :
        /\ thr[t].route = "/metrics" /\ thr[t].method = "GET" /\ thr[t].pc = "done"
        /\ thr[t].response.status = 200
        /\ thr[t].response.registry.REQUEST_COUNT = REQUEST_COUNT
        /\ CountOf(REQUEST_COUNT, <<"/vote", "POST">>) = 2
        /\ CountOf(RESPONSE_TIME, "/vote") = 2

(***************************************************************************)
(* C10.  /result answers 200 with the tally dict as it is, no step of a    *)
(* /result request changes a tally, and an answer of /result equals the    *)
(* previous one when no tally was stored in between.                       *)
(***************************************************************************)
C10_ResultReadOnlyIdempotent ==
    [][\A t \in Threads :
          /\ thr[t].pc = "result" /\ thr'[t].pc # "result"
             => /\ thr'[t].response.status = 200
                /\ thr'[t].response.data = votes
                /\ hLastResult # NoResult => thr'[t].response.data = hLastResult
          /\ StepBy(t) /\ (thr[t].route = "/result" \/ thr'[t].route = "/result")
             => votes' = votes]_vars

C10_Witness ==
    \E t, u \in Threads :
        /\ t # u
        /\ thr[t].route = "/result" /\ thr[u].route = "/result"
        /\ thr[t].pc = "done" /\ thr[u].pc = "done"
        /\ thr[t].response.data = thr[u].response.data
        /\ thr[t].response.data = hLastResult
        /\ thr[t].response.data.val["Java"] = 1

====
